---- MODULE Spec2Model ----
(***************************************************************************)
(* DatabaseManager (src/database.py): the user store on PostgreSQL.        *)
(*                                                                         *)
(* The module-level constructor runs init_tables once; after that, worker  *)
(* threads of the application call create_user, get_user_by_email,         *)
(* get_user_by_id, email_exists and verify_user concurrently.  Every       *)
(* operation acquires its own connection through get_connection, executes  *)
(* one statement, and leaves the with-block.  The steps that the database  *)
(* can observe (connect, execute, commit, rollback, close) are the atomic  *)
(* actions; everything a thread does between two of them is local and is   *)
(* folded into the step that precedes it.                                  *)
(*                                                                         *)
(* The columns created_at / updated_at are server-assigned timestamps that *)
(* no operation of the class reads; they are left out of the rows.         *)
(***************************************************************************)
EXTENDS Integers, FiniteSets, Sequences, TLC

(* ------------------------------ bounds -------------------------------- *)
NumThreads == 2
NumEmails == 2
NumPasswords == 2
NumProfiles == 1
NumSalts == 1
MaxId == 2
MaxFaults == 1

Main == 0
Workers == 1..NumThreads
Threads == {Main} \cup Workers
Emails == 1..NumEmails
Passwords == 1..NumPasswords
Profiles == 1..NumProfiles
Salts == 1..NumSalts
Ids == 1..MaxId

\* The environment variables __init__ reads.
EnvNames == {"DB_USER", "DB_PASS", "DB_NAME", "CLOUD_SQL_CONNECTION_NAME"}

(* ------------------------- schema (init_tables) ----------------------- *)
UsersTable == "users"
SessionsTable == "user_sessions"
EmailIndex == "idx_users_email"
SchemaObjects == {UsersTable, SessionsTable, EmailIndex}

\* Column defaults of CREATE TABLE users.
DefaultYearsExperience == 0
DefaultPhone == ""
DefaultDoctorTitle == "Dr."
DefaultIsActive == TRUE

\* The class has no attribute _add_missing_columns: its def sits inside a
\* string literal, so the call in init_tables raises AttributeError.
HasAddMissingColumns == FALSE

(* --------------------------- bcrypt (codec) --------------------------- *)
\* bcrypt.hashpw(password, salt): the salt is kept in the opaque value.
hashpw(password, salt) == [salt |-> salt, digest |-> <<salt, password>>]
\* bcrypt.checkpw(password, hashed): rehash with the stored salt and compare.
checkpw(password, hashed) == hashpw(password, hashed.salt) = hashed

(* ------------------------------ values -------------------------------- *)
None == [tag |-> "None"]
IntVal(i) == [tag |-> "int", val |-> i]
BoolVal(b) == [tag |-> "bool", val |-> b]
DictVal(d) == [tag |-> "dict", val |-> d]

NoArgs == [email |-> 0, password |-> 0, profile |-> 0, salt |-> 0, user_id |-> 0]

VARIABLES
    environ,      \* names of the variables set in the process environment
    schema,       \* committed schema objects of the store
    users,        \* committed rows of table users
    nextId,       \* next value of the sequence behind users.id (SERIAL)
    ready,        \* the module-level DatabaseManager() has returned
    pc,           \* per thread: position inside the running operation
    op,           \* per thread: the running operation
    args,         \* per thread: its arguments
    conn,         \* per thread: the connection of get_connection
    pendingRows,  \* per thread: rows inserted in the open transaction
    pendingDDL,   \* per thread: schema objects created in the open transaction
    held,         \* per thread: value of the return statement inside the with-block
    exc,          \* per thread: the exception in flight / caught by the handler
    ret,          \* per thread: what the operation returned to its caller
    closes,       \* per thread: close() calls on the connection of this operation
    faults,       \* environment failures injected so far
    seen,         \* history: committed rows with the call's key when the call took effect
    prechecked,   \* history: per thread, the email its last call (email_exists) found free
    succeeded     \* history: <<email, id>> of every create_user call that returned an id

vars == <<environ, schema, users, nextId, ready, pc, op, args, conn, pendingRows,
          pendingDDL, held, exc, ret, closes, faults, seen, prechecked,
          succeeded>>

(* ------------------------------- rows --------------------------------- *)
\* create_user: the tuple of the INSERT; the columns it does not list take
\* the defaults of the table.
NewRow(id, a) ==
    [id |-> id,
     name_surname |-> <<a.profile, a.profile>>,
     email |-> a.email,
     password_hash |-> hashpw(a.password, a.salt),
     medical_field |-> a.profile,
     organization |-> a.profile,
     diploma_number |-> a.profile,
     first_name |-> a.profile,
     last_name |-> a.profile,
     years_experience |-> DefaultYearsExperience,
     phone |-> DefaultPhone,
     doctor_title |-> DefaultDoctorTitle,
     is_active |-> DefaultIsActive]

\* Column lists of the SELECT statements.
ProfileColumns ==
    {"id", "first_name", "last_name", "email", "medical_field", "organization",
     "diploma_number", "doctor_title"}
VerifyColumns == ProfileColumns \cup {"password_hash"}

\* One row of a RealDictCursor restricted to the selected columns.
SelectRow(row, columns) == [c \in columns |-> row[c]]
\* Variant: the hash is left in the dictionary.
DelPasswordHash_Kept(d) == d

\* del user_data['password_hash']
DelPasswordHash(d) == [c \in (DOMAIN d) \ {"password_hash"} |-> d[c]]

\* WHERE email = %s AND is_active = TRUE
ActiveByEmail(email) == {r \in users : r.email = email /\ r.is_active = TRUE}
\* WHERE id = %s AND is_active = TRUE
ActiveById(id) == {r \in users : r.id = id /\ r.is_active = TRUE}
\* SELECT 1 FROM users WHERE email = %s
AnyByEmail(email) == {r \in users : r.email = email}

\* Variant: the index is partial (UNIQUE ... WHERE is_active), so the email
\* of a deactivated user is free again.
UniqueViolation_ActiveOnly(email) ==
    \E r \in users : r.email = email /\ r.is_active = TRUE

\* Variant: the email column carries no UNIQUE constraint.
UniqueViolation_Unconstrained(email) == FALSE

\* email VARCHAR(255) UNIQUE NOT NULL: the INSERT is rejected while a
\* committed row carries the email.
UniqueViolation(email) == \E r \in users : r.email = email

\* The unique index makes an INSERT wait for an uncommitted INSERT of the
\* same email in another transaction.
WaitsForInsert(t, email) ==
    \E u \in Threads \ {t} : \E r \in pendingRows[u] : r.email = email

(* ------------------------------ exceptions ---------------------------- *)
\* Exceptions are named by what raised them.  The first five are failures
\* of the driver or of the network under connect, execute, commit, rollback
\* and close; the others are raised for the statement or by Python itself.
DriverErrors ==
    {"ConnectError", "ExecuteError", "CommitError", "RollbackError", "CloseError"}
Exceptions == DriverErrors \cup {"IntegrityError", "UndefinedTable", "AttributeError"}

(* --------------------------- exception handlers ----------------------- *)
\* Variant: create_user has only its `except psycopg2.IntegrityError`
\* clause, so any other exception leaves the method as it is.
ExceptReturn_IntegrityOnly(o, e) ==
    CASE o = "create_user" ->
           IF e = "IntegrityError" THEN None ELSE [tag |-> "raise", val |-> e]
      [] o = "email_exists" -> BoolVal(FALSE)
      [] OTHER -> None

\* What each operation returns from its except clauses.
ExceptReturn(o, e) ==
    CASE o = "create_user" ->
           IF e = "IntegrityError" THEN None ELSE None
      [] o = "email_exists" -> BoolVal(FALSE)
      [] OTHER -> None

(* ------------------------------- Init --------------------------------- *)
\* The store is reachable and either fresh (no schema) or already carries
\* the schema of an earlier deployment; the process has started and the
\* module-level DatabaseManager() has not run yet.
Init ==
    /\ environ \in SUBSET EnvNames
    /\ schema \in {{}, SchemaObjects}
    /\ users = {}
    /\ nextId = 1
    /\ ready = FALSE
    /\ pc = [t \in Threads |-> "idle"]
    /\ op = [t \in Threads |-> "none"]
    /\ args = [t \in Threads |-> NoArgs]
    /\ conn = [t \in Threads |-> "none"]
    /\ pendingRows = [t \in Threads |-> {}]
    /\ pendingDDL = [t \in Threads |-> {}]
    /\ held = [t \in Threads |-> None]
    /\ exc = [t \in Threads |-> "none"]
    /\ ret = [t \in Threads |-> None]
    /\ closes = [t \in Threads |-> 0]
    /\ faults = 0
    /\ seen = [t \in Threads |-> {}]
    /\ prechecked = [t \in Threads |-> 0]
    /\ succeeded = {}

(* --------------------------- get_connection --------------------------- *)
\* __init__ reads the four connection parameters with os.environ.get, which
\* gives None for a name that is not set, and get_connection hands them to
\* connector.connect as they are.
os_environ_get(name) == IF name \in environ THEN name ELSE "None"

ConnectArgs == [n \in EnvNames |-> os_environ_get(n)]

\* The connector can reach the instance only with all four parameters.
Connectable == \A n \in EnvNames : ConnectArgs[n] # "None"

\* Entering `with self.get_connection() as conn` for operation o with
\* arguments a: connector.connect either yields a connection or raises; in
\* the second case conn is None, so neither rollback nor close runs, and the
\* operation's own except clause produces the return value.  key is the set
\* of committed rows the call is about.
Enter(t, o, a, key) ==
    /\ pc[t] = "idle"
    /\ op' = [op EXCEPT ![t] = o]
    /\ args' = [args EXCEPT ![t] = a]
    /\ prechecked' = [prechecked EXCEPT ![t] =
                        IF o = "create_user" /\ a.email = prechecked[t]
                        THEN a.email ELSE 0]
    /\ \/ /\ Connectable
          /\ conn' = [conn EXCEPT ![t] = "open"]
          /\ pc' = [pc EXCEPT ![t] = "execute"]
          /\ UNCHANGED <<exc, ret, faults, seen>>
       \/ /\ IF Connectable
             THEN faults < MaxFaults /\ faults' = faults + 1
             ELSE faults' = faults
          /\ exc' = [exc EXCEPT ![t] = "ConnectError"]
          /\ ret' = [ret EXCEPT ![t] = ExceptReturn(o, "ConnectError")]
          /\ seen' = [seen EXCEPT ![t] = key]
          /\ pc' = [pc EXCEPT ![t] = "done"]
          /\ UNCHANGED conn
    /\ UNCHANGED <<schema, users, nextId, ready, environ, pendingRows,
                   pendingDDL, held, closes, succeeded>>

\* An exception raised inside the with-block reaches `except Exception` of
\* get_connection.
Raise(t, e) ==
    /\ exc' = [exc EXCEPT ![t] = e]
    /\ pc' = [pc EXCEPT ![t] = "rollback"]

\* Variant: close() sits in the except clause only, so a return from inside
\* the with-block leaves without closing.
LeaveWith_NoFinally(t, value) ==
    /\ held' = [held EXCEPT ![t] = value]
    /\ pc' = [pc EXCEPT ![t] = "done"]

\* The with-block is left by `return value` (or by falling off its end).
LeaveWith(t, value) ==
    /\ held' = [held EXCEPT ![t] = value]
    /\ pc' = [pc EXCEPT ![t] = "close"]

\* cursor.execute fails on the wire.
ExecuteFails(t) ==
    /\ pc[t] = "execute"
    /\ faults < MaxFaults
    /\ faults' = faults + 1
    /\ Raise(t, "ExecuteError")
    /\ seen' = [seen EXCEPT ![t] =
                  IF op[t] = "get_user_by_id" THEN {r \in users : r.id = args[t].user_id}
                  ELSE AnyByEmail(args[t].email)]
    /\ UNCHANGED <<schema, users, nextId, ready, environ, prechecked, op,
                   args, conn, pendingRows, pendingDDL, held, ret, closes,
                   succeeded>>

\* cursor.execute gets no answer from the server.  No socket or statement
\* timeout is set on the connection, so the call does not return: the thread
\* stays inside execute with its connection open.
ExecuteHangs(t) ==
    /\ pc[t] = "execute"
    /\ faults < MaxFaults
    /\ faults' = faults + 1
    /\ pc' = [pc EXCEPT ![t] = "blocked"]
    /\ UNCHANGED <<environ, prechecked, schema, users, nextId, ready, op,
                   args, conn, pendingRows, pendingDDL, held, exc, ret,
                   closes, seen, succeeded>>

\* Variant: the except clause re-raises without calling rollback.
Rollback_Skipped(t) ==
    /\ pc[t] = "rollback"
    /\ pc' = [pc EXCEPT ![t] = "close"]
    /\ UNCHANGED <<schema, users, nextId, ready, environ, prechecked, op,
                   args, conn, pendingRows, pendingDDL, held, exc, ret,
                   closes, faults, seen, succeeded>>

\* except Exception: if conn: conn.rollback(); raise e.  A rollback that
\* raises replaces the exception in flight and leaves the transaction open.
Rollback(t) ==
    /\ pc[t] = "rollback"
    /\ pc' = [pc EXCEPT ![t] = "close"]
    /\ \/ /\ pendingRows' = [pendingRows EXCEPT ![t] = {}]
          /\ pendingDDL' = [pendingDDL EXCEPT ![t] = {}]
          /\ UNCHANGED <<exc, faults>>
       \/ /\ faults < MaxFaults
          /\ faults' = faults + 1
          /\ exc' = [exc EXCEPT ![t] = "RollbackError"]
          /\ UNCHANGED <<pendingRows, pendingDDL>>
    /\ UNCHANGED <<schema, users, nextId, ready, environ, prechecked, op,
                   args, conn, held, ret, closes, seen, succeeded>>

\* finally: if conn: conn.close().  The server aborts a transaction that is
\* still open when its connection goes away.  After the finally clause the
\* operation returns: the value of its return statement, or what its except
\* clause returns for the exception in flight; a close that raises is an
\* exception in flight too.
Close(t) ==
    /\ pc[t] = "close"
    /\ conn' = [conn EXCEPT ![t] = "closed"]
    /\ closes' = [closes EXCEPT ![t] = @ + 1]
    /\ pendingRows' = [pendingRows EXCEPT ![t] = {}]
    /\ pendingDDL' = [pendingDDL EXCEPT ![t] = {}]
    /\ pc' = [pc EXCEPT ![t] = "done"]
    /\ \/ /\ ret' = [ret EXCEPT ![t] =
                       IF exc[t] = "none" THEN held[t] ELSE ExceptReturn(op[t], exc[t])]
          /\ succeeded' =
               IF exc[t] = "none" /\ op[t] = "create_user"
               THEN succeeded \cup {<<args[t].email, held[t].val>>}
               ELSE succeeded
          /\ UNCHANGED <<exc, faults>>
       \/ /\ faults < MaxFaults
          /\ faults' = faults + 1
          /\ exc' = [exc EXCEPT ![t] = "CloseError"]
          /\ ret' = [ret EXCEPT ![t] = ExceptReturn(op[t], "CloseError")]
          /\ UNCHANGED succeeded
    /\ UNCHANGED <<schema, users, nextId, ready, environ, prechecked, op,
                   args, held, seen>>

\* conn.commit() of create_user and init_tables.
Commit(t) ==
    /\ pc[t] = "commit"
    /\ \/ /\ users' = users \cup pendingRows[t]
          /\ schema' = schema \cup pendingDDL[t]
          /\ pendingRows' = [pendingRows EXCEPT ![t] = {}]
          /\ pendingDDL' = [pendingDDL EXCEPT ![t] = {}]
          /\ LeaveWith(t, IF op[t] = "create_user" THEN IntVal(args[t].user_id) ELSE None)
          /\ UNCHANGED <<exc, faults>>
       \/ /\ faults < MaxFaults
          /\ faults' = faults + 1
          /\ Raise(t, "CommitError")
          /\ UNCHANGED <<users, schema, pendingRows, pendingDDL, held>>
    /\ UNCHANGED <<nextId, ready, environ, prechecked, op, args, conn, ret,
                   closes, seen, succeeded>>

(* ----------------------------- init_tables ---------------------------- *)
\* DatabaseManager.__init__ calls init_tables before anything else can use
\* the instance.
init_tables(t) ==
    /\ t = Main
    /\ ~ready
    /\ Enter(t, "init_tables", NoArgs, {})

\* The body of the with-block: CREATE TABLE IF NOT EXISTS users, then the
\* call of self._add_missing_columns(cursor).  With the method missing the
\* call raises AttributeError and the statements after it (user_sessions,
\* the index, the commit) are never reached.
init_tables_execute(t) ==
    /\ pc[t] = "execute"
    /\ op[t] = "init_tables"
    /\ IF HasAddMissingColumns
       THEN /\ pendingDDL' = [pendingDDL EXCEPT ![t] = SchemaObjects \ schema]
            /\ pc' = [pc EXCEPT ![t] = "commit"]
            /\ UNCHANGED exc
       ELSE /\ pendingDDL' = [pendingDDL EXCEPT ![t] = {UsersTable} \ schema]
            /\ Raise(t, "AttributeError")
    /\ UNCHANGED <<schema, users, nextId, ready, environ, prechecked, op,
                   args, conn, pendingRows, held, ret, closes, faults, seen,
                   succeeded>>

\* except Exception in init_tables prints and falls through; __init__ then
\* prints its banner and returns, and the module-level `db` is bound.
DatabaseManager(t) ==
    /\ t = Main
    /\ pc[t] = "done"
    /\ ~ready
    /\ ready' = TRUE
    /\ pc' = [pc EXCEPT ![t] = "idle"]
    /\ op' = [op EXCEPT ![t] = "none"]
    /\ conn' = [conn EXCEPT ![t] = "none"]
    /\ held' = [held EXCEPT ![t] = None]
    /\ exc' = [exc EXCEPT ![t] = "none"]
    /\ ret' = [ret EXCEPT ![t] = None]
    /\ closes' = [closes EXCEPT ![t] = 0]
    /\ UNCHANGED <<environ, prechecked, schema, users, nextId, args,
                   pendingRows, pendingDDL, faults, seen, succeeded>>

(* ----------------------------- create_user ---------------------------- *)
\* Inserts that have been called and have not reached their INSERT yet.
InsertsAhead == {u \in Workers : op[u] = "create_user" /\ pc[u] = "execute"}

\* The password is hashed with a fresh salt before the connection is made.
create_user(t, email, password, profile, salt) ==
    /\ t \in Workers
    /\ ready
    /\ nextId + Cardinality(InsertsAhead) <= MaxId
    /\ Enter(t, "create_user",
             [email |-> email, password |-> password, profile |-> profile,
              salt |-> salt, user_id |-> 0],
             AnyByEmail(email))

\* INSERT ... RETURNING id; user_id = cursor.fetchone()['id'].  The sequence
\* value is taken before the unique index is consulted and is not given back.
create_user_execute(t) ==
    /\ pc[t] = "execute"
    /\ op[t] = "create_user"
    /\ seen' = [seen EXCEPT ![t] = AnyByEmail(args[t].email)]
    /\ IF UsersTable \notin schema
       THEN /\ Raise(t, "UndefinedTable")
            /\ UNCHANGED <<nextId, pendingRows, args>>
       ELSE /\ ~WaitsForInsert(t, args[t].email)
            /\ nextId' = nextId + 1
            /\ IF UniqueViolation(args[t].email)
               THEN /\ Raise(t, "IntegrityError")
                    /\ UNCHANGED <<pendingRows, args>>
               ELSE /\ pendingRows' = [pendingRows EXCEPT ![t] = {NewRow(nextId, args[t])}]
                    /\ args' = [args EXCEPT ![t].user_id = nextId]
                    /\ pc' = [pc EXCEPT ![t] = "commit"]
                    /\ UNCHANGED exc
    /\ UNCHANGED <<schema, users, ready, environ, prechecked, op, conn,
                   pendingDDL, held, ret, closes, faults, succeeded>>

(* ------------------------------ lookups ------------------------------- *)
get_user_by_email(t, email) ==
    /\ t \in Workers
    /\ ready
    /\ Enter(t, "get_user_by_email", [NoArgs EXCEPT !.email = email], AnyByEmail(email))

get_user_by_email_execute(t) ==
    /\ pc[t] = "execute"
    /\ op[t] = "get_user_by_email"
    /\ seen' = [seen EXCEPT ![t] = AnyByEmail(args[t].email)]
    /\ IF UsersTable \notin schema
       THEN Raise(t, "UndefinedTable") /\ UNCHANGED held
       ELSE /\ IF ActiveByEmail(args[t].email) = {}
               THEN LeaveWith(t, None)
               ELSE \E user \in ActiveByEmail(args[t].email) :
                        LeaveWith(t, DictVal(SelectRow(user, ProfileColumns)))
            /\ UNCHANGED exc
    /\ UNCHANGED <<schema, users, nextId, ready, environ, prechecked, op,
                   args, conn, pendingRows, pendingDDL, ret, closes, faults,
                   succeeded>>

get_user_by_id(t, user_id) ==
    /\ t \in Workers
    /\ ready
    /\ Enter(t, "get_user_by_id", [NoArgs EXCEPT !.user_id = user_id],
             {r \in users : r.id = user_id})

get_user_by_id_execute(t) ==
    /\ pc[t] = "execute"
    /\ op[t] = "get_user_by_id"
    /\ seen' = [seen EXCEPT ![t] = {r \in users : r.id = args[t].user_id}]
    /\ IF UsersTable \notin schema
       THEN Raise(t, "UndefinedTable") /\ UNCHANGED held
       ELSE /\ IF ActiveById(args[t].user_id) = {}
               THEN LeaveWith(t, None)
               ELSE \E user \in ActiveById(args[t].user_id) :
                        LeaveWith(t, DictVal(SelectRow(user, ProfileColumns)))
            /\ UNCHANGED exc
    /\ UNCHANGED <<schema, users, nextId, ready, environ, prechecked, op,
                   args, conn, pendingRows, pendingDDL, ret, closes, faults,
                   succeeded>>

email_exists(t, email) ==
    /\ t \in Workers
    /\ ready
    /\ Enter(t, "email_exists", [NoArgs EXCEPT !.email = email], AnyByEmail(email))

email_exists_execute(t) ==
    /\ pc[t] = "execute"
    /\ op[t] = "email_exists"
    /\ seen' = [seen EXCEPT ![t] = AnyByEmail(args[t].email)]
    /\ IF UsersTable \notin schema
       THEN Raise(t, "UndefinedTable") /\ UNCHANGED held
       ELSE /\ LeaveWith(t, BoolVal(AnyByEmail(args[t].email) # {}))
            /\ UNCHANGED exc
    /\ UNCHANGED <<schema, users, nextId, ready, environ, prechecked, op,
                   args, conn, pendingRows, pendingDDL, ret, closes, faults,
                   succeeded>>

(* ----------------------------- verify_user ---------------------------- *)
\* if user and bcrypt.checkpw(...): user_data = dict(user);
\* del user_data['password_hash']; return user_data -- else return None.
VerifyResult(user, password) ==
    IF checkpw(password, user.password_hash)
    THEN DictVal(DelPasswordHash(SelectRow(user, VerifyColumns)))
    ELSE None

verify_user(t, email, password) ==
    /\ t \in Workers
    /\ ready
    /\ Enter(t, "verify_user",
             [NoArgs EXCEPT !.email = email, !.password = password],
             AnyByEmail(email))

verify_user_credentials(t, email, password) == verify_user(t, email, password)

\* Variant: a wrong password locks the account (UPDATE users SET is_active =
\* FALSE, committed by the server at once).
verify_user_execute_Lockout(t) ==
    /\ pc[t] = "execute"
    /\ op[t] = "verify_user"
    /\ seen' = [seen EXCEPT ![t] = AnyByEmail(args[t].email)]
    /\ IF UsersTable \notin schema
       THEN Raise(t, "UndefinedTable") /\ UNCHANGED <<held, users>>
       ELSE /\ IF ActiveByEmail(args[t].email) = {}
               THEN LeaveWith(t, None) /\ UNCHANGED users
               ELSE \E user \in ActiveByEmail(args[t].email) :
                        /\ LeaveWith(t, VerifyResult(user, args[t].password))
                        /\ users' =
                             IF VerifyResult(user, args[t].password) = None
                             THEN (users \ {user})
                                  \cup {[user EXCEPT !.is_active = FALSE]}
                             ELSE users
            /\ UNCHANGED exc
    /\ UNCHANGED <<schema, nextId, ready, environ, prechecked, op, args, conn,
                   pendingRows, pendingDDL, ret, closes, faults, succeeded>>

\* The SELECT of verify_user and the check of the password.
verify_user_execute(t) ==
    /\ pc[t] = "execute"
    /\ op[t] = "verify_user"
    /\ seen' = [seen EXCEPT ![t] = AnyByEmail(args[t].email)]
    /\ IF UsersTable \notin schema
       THEN Raise(t, "UndefinedTable") /\ UNCHANGED held
       ELSE /\ IF ActiveByEmail(args[t].email) = {}
               THEN LeaveWith(t, None)
               ELSE \E user \in ActiveByEmail(args[t].email) :
                        LeaveWith(t, VerifyResult(user, args[t].password))
            /\ UNCHANGED exc
    /\ UNCHANGED <<schema, users, nextId, ready, environ, prechecked, op,
                   args, conn, pendingRows, pendingDDL, ret, closes, faults,
                   succeeded>>

(* ------------------------------ the caller ---------------------------- *)
\* The application thread takes the returned value and is free to call again.
Return(t) ==
    /\ t \in Workers
    /\ pc[t] = "done"
    /\ pc' = [pc EXCEPT ![t] = "idle"]
    /\ op' = [op EXCEPT ![t] = "none"]
    /\ args' = [args EXCEPT ![t] = NoArgs]
    /\ conn' = [conn EXCEPT ![t] = "none"]
    /\ held' = [held EXCEPT ![t] = None]
    /\ exc' = [exc EXCEPT ![t] = "none"]
    /\ ret' = [ret EXCEPT ![t] = None]
    /\ closes' = [closes EXCEPT ![t] = 0]
    /\ seen' = [seen EXCEPT ![t] = {}]
    /\ prechecked' = [prechecked EXCEPT ![t] =
                        IF op[t] = "email_exists" /\ ret[t] = BoolVal(FALSE)
                        THEN args[t].email ELSE 0]
    /\ UNCHANGED <<schema, users, nextId, ready, environ, pendingRows,
                   pendingDDL, faults, succeeded>>

\* An external collaborator soft-deletes a user: UPDATE users SET is_active =
\* FALSE WHERE id = ..., committed at once.
Deactivate(r) ==
    /\ ready
    /\ r \in users
    /\ r.is_active = TRUE
    /\ users' = (users \ {r}) \cup {[r EXCEPT !.is_active = FALSE]}
    /\ UNCHANGED <<schema, nextId, ready, environ, prechecked, pc, op, args,
                   conn, pendingRows, pendingDDL, held, exc, ret, closes,
                   faults, seen, succeeded>>

Next ==
    \/ \E t \in Threads : init_tables(t)
    \/ \E t \in Threads : init_tables_execute(t)
    \/ \E t \in Threads : DatabaseManager(t)
    \/ \E t \in Threads, email \in Emails, password \in Passwords,
          profile \in Profiles, salt \in Salts :
          create_user(t, email, password, profile, salt)
    \/ \E t \in Threads : create_user_execute(t)
    \/ \E t \in Threads, email \in Emails : get_user_by_email(t, email)
    \/ \E t \in Threads : get_user_by_email_execute(t)
    \/ \E t \in Threads, user_id \in Ids : get_user_by_id(t, user_id)
    \/ \E t \in Threads : get_user_by_id_execute(t)
    \/ \E t \in Threads, email \in Emails : email_exists(t, email)
    \/ \E t \in Threads : email_exists_execute(t)
    \/ \E t \in Threads, email \in Emails, password \in Passwords :
          verify_user(t, email, password)
    \/ \E t \in Threads, email \in Emails, password \in Passwords :
          verify_user_credentials(t, email, password)
    \/ \E t \in Threads : verify_user_execute(t)
    \/ \E t \in Threads : ExecuteFails(t)
    \/ \E t \in Threads : ExecuteHangs(t)
    \/ \E t \in Threads : Commit(t)
    \/ \E t \in Threads : Rollback(t)
    \/ \E t \in Threads : Close(t)
    \/ \E t \in Threads : Return(t)
    \/ \E r \in users : Deactivate(r)

Spec == Init /\ [][Next]_vars

(* ============================== properties ============================ *)
TypeOK ==
    /\ environ \subseteq EnvNames
    /\ schema \subseteq SchemaObjects
    /\ nextId \in 1..(MaxId + 1)
    /\ ready \in BOOLEAN
    /\ pc \in [Threads -> {"idle", "execute", "blocked", "commit", "rollback", "close", "done"}]
    /\ exc \in [Threads -> Exceptions \cup {"none"}]
    /\ conn \in [Threads -> {"none", "open", "closed"}]
    /\ closes \in [Threads -> 0..1]
    /\ faults \in 0..MaxFaults
    /\ prechecked \in [Threads -> {0} \cup Emails]
    /\ \A r \in users : r.id \in Ids /\ r.email \in Emails

Finished(t, o) == pc[t] = "done" /\ op[t] = o

\* The stored row of the call's email (or id) is present, active, and its
\* hash verifies against the password of the call.
CredentialsValid(t) ==
    \E r \in seen[t] : r.is_active = TRUE /\ checkpw(args[t].password, r.password_hash)

\* The row the call is about was committed by a create_user call that has
\* returned its id.
Created(t) == \E r \in seen[t] : <<r.email, r.id>> \in succeeded

\* C1: among create_user calls with the same email, whatever their other
\* fields and however they interleave, at most one returns an id, every
\* other one returns the value of the conflict branch, and the table never
\* holds two rows with the same email.
C1_OneCreatePerEmail ==
    /\ \A r1, r2 \in users : r1.email = r2.email => r1 = r2
    /\ \A s1, s2 \in succeeded : s1[1] = s2[1] => s1 = s2
    /\ \A t \in Workers :
          (/\ Finished(t, "create_user")
           /\ \E s \in succeeded : s[1] = args[t].email /\ ret[t] # IntVal(s[2]))
          => ret[t] = ExceptReturn("create_user", "IntegrityError")

\* Two calls with the same email and different passwords have both
\* finished: one returned an id, the other hit the unique constraint.
C1_Witness ==
    \E t, u \in Workers :
        /\ t # u
        /\ Finished(t, "create_user") /\ Finished(u, "create_user")
        /\ args[t].email = args[u].email
        /\ args[t].password # args[u].password
        /\ ret[t].tag = "int"
        /\ exc[u] = "IntegrityError"
        /\ ret[u] = None

\* C2: verify_user returns a profile exactly when the row of the email
\* exists, is active and its hash verifies; otherwise it returns None.
C2_VerifyIffValid ==
    \A t \in Workers :
        Finished(t, "verify_user") =>
            /\ (ret[t].tag = "dict") <=> CredentialsValid(t)
            /\ ~CredentialsValid(t) => ret[t] = None

\* C3: no result of get_user_by_email, get_user_by_id or verify_user has a
\* password_hash key.
C3_NoHashReturned ==
    \A t \in Workers :
        (/\ op[t] \in {"get_user_by_email", "get_user_by_id", "verify_user"}
         /\ ret[t].tag = "dict")
        => "password_hash" \notin DOMAIN ret[t].val

\* verify_user has returned the profile of a user whose password matched.
C3_Witness ==
    \E t \in Workers :
        /\ Finished(t, "verify_user")
        /\ ret[t].tag = "dict"
        /\ ret[t].val.email = args[t].email
        /\ CredentialsValid(t)

\* C4: a create_user call rejected by the unique constraint returns
\* something that differs from what create_user returns for every other
\* failure.
C4_ConflictDistinct ==
    \A t \in Workers :
        (Finished(t, "create_user") /\ exc[t] = "IntegrityError")
        => \A e \in Exceptions \ {"IntegrityError"} :
               ret[t] # ExceptReturn("create_user", e)

\* C5: a create_user call whose email no row carries returns an id (the
\* connection parameters are all set and no driver failure has happened, in
\* the call or before it); the ids returned are pairwise distinct.
C5_DistinctEmailsSucceed ==
    /\ \A t \in Workers :
          (/\ Finished(t, "create_user")
           /\ seen[t] = {}
           /\ Connectable
           /\ faults = 0)
          => ret[t].tag = "int"
    /\ \A s1, s2 \in succeeded : s1[2] = s2[2] => s1 = s2

\* C6: email_exists returns False while no create_user has committed a row
\* with the email, and True once a create_user with the email has committed
\* its row and returned the id.
C6_ExistsIffCreated ==
    \A t \in Workers :
        Finished(t, "email_exists") =>
            /\ seen[t] = {} => ret[t] = BoolVal(FALSE)
            /\ Created(t) => ret[t] = BoolVal(TRUE)

\* C7: for a user that create_user has created and that has since been
\* deactivated, the three lookups return None and email_exists returns True.
C7_DeactivatedHidden ==
    \A t \in Workers :
        (/\ pc[t] = "done"
         /\ Created(t)
         /\ \A r \in seen[t] : r.is_active = FALSE)
        => /\ op[t] \in {"get_user_by_email", "get_user_by_id", "verify_user"}
                => ret[t] = None
           /\ op[t] = "email_exists" => ret[t] = BoolVal(TRUE)

\* C8: the connection of an operation is closed exactly once before the
\* operation returns, on every way out; no connection is open while its
\* thread is outside an operation.
C8_ClosedExactlyOnce ==
    \A t \in Threads :
        /\ pc[t] \in {"idle", "done"} => conn[t] # "open"
        /\ conn[t] = "open" => closes[t] = 0
        /\ conn[t] = "closed" => closes[t] = 1
        /\ conn[t] = "none" => closes[t] = 0

\* An operation has returned after its rollback raised: its connection was
\* still closed, once.
C8_Witness ==
    \E t \in Threads :
        /\ pc[t] = "done"
        /\ exc[t] = "RollbackError"
        /\ conn[t] = "closed"
        /\ closes[t] = 1

Pending(t) == pendingRows[t] \cup pendingDDL[t]
Closing(t) == conn[t] = "open" /\ conn'[t] = "closed"

\* C9 as stated: whenever a connection is closed, the changes of its
\* transaction have already been rolled back or committed.
C9_RolledBackBeforeClose ==
    [][\A t \in Threads : Closing(t) => Pending(t) = {}]_vars

\* C9 as amended: a connection is closed with an uncommitted change only
\* after a rollback was attempted and itself raised; the close then discards
\* the change, and storage is the same after the close as before it.
C9_RollbackAttemptedBeforeClose ==
    [][\A t \in Threads :
          Closing(t) =>
              /\ Pending(t) # {} => exc[t] = "RollbackError"
              /\ pendingRows'[t] = {} /\ pendingDDL'[t] = {}
              /\ users' = users /\ schema' = schema]_vars

\* A connection is about to be closed with an uncommitted change after its
\* rollback raised.
C9_Witness ==
    \E t \in Threads :
        pc[t] = "close" /\ Pending(t) # {} /\ exc[t] = "RollbackError"

\* C10: when init_tables has run in the constructor against a store it
\* could reach, the users table, the user_sessions table and the email index
\* are committed schema.
C10_SchemaInitialised ==
    (Finished(Main, "init_tables") /\ exc[Main] \notin DriverErrors)
    => SchemaObjects \subseteq schema

\* C11: the constructor completes (the store starts serving) only when
\* init_tables raised nothing and the whole schema is committed; a failed
\* initialisation never ends in a served store.
C11_InitFailureSurfaced ==
    [][(~ready /\ ready') =>
          /\ exc[Main] = "none"
          /\ SchemaObjects \subseteq schema']_vars

\* C12: the constructor completes only when DB_USER, DB_PASS, DB_NAME and
\* CLOUD_SQL_CONNECTION_NAME are all set in the environment.
C12_MissingParameterFailsConstruction ==
    ready => EnvNames \subseteq environ

\* C13: an operation whose connector.connect raised ends with an outcome of
\* its own: not the absence result (None, False) and not the outcome the
\* operation gives for a uniqueness conflict or any other failure.
C13_ConnectFailureDistinct ==
    \A t \in Workers :
        (pc[t] = "done" /\ exc[t] = "ConnectError") =>
            /\ ret[t] \notin {None, BoolVal(FALSE)}
            /\ \A e \in Exceptions \ {"ConnectError"} :
                   ret[t] # ExceptReturn(op[t], e)

\* The steps the code of thread t can take.
Step(t) ==
    \/ init_tables(t) \/ init_tables_execute(t) \/ DatabaseManager(t)
    \/ \E email \in Emails, password \in Passwords, profile \in Profiles,
          salt \in Salts : create_user(t, email, password, profile, salt)
    \/ \E email \in Emails : get_user_by_email(t, email)
    \/ \E user_id \in Ids : get_user_by_id(t, user_id)
    \/ \E email \in Emails : email_exists(t, email)
    \/ \E email \in Emails, password \in Passwords :
          verify_user(t, email, password)
    \/ create_user_execute(t) \/ get_user_by_email_execute(t)
    \/ get_user_by_id_execute(t) \/ email_exists_execute(t)
    \/ verify_user_execute(t)
    \/ ExecuteFails(t) \/ ExecuteHangs(t)
    \/ Commit(t) \/ Rollback(t) \/ Close(t) \/ Return(t)

\* C14: an operation that waits for an answer of the server can always go
\* on by a step of its own (give up the wait, fail, release the connection);
\* none stays blocked with its connection open.
C14_NoOperationBlocksForever ==
    \A t \in Threads : pc[t] = "blocked" => ENABLED Step(t)

\* The kinds of value an operation hands to its caller.
ReturnKinds(o) ==
    CASE o = "create_user" -> {"int", "None"}
      [] o = "email_exists" -> {"bool"}
      [] OTHER -> {"dict", "None"}

\* C15: every operation that has ended, whatever raised on its way (connect,
\* execute, fetch, commit, rollback, close), hands its caller a value of its
\* own result kinds; no exception leaves it.
C15_NoExceptionEscapes ==
    \A t \in Workers :
        pc[t] = "done" => ret[t].tag \in ReturnKinds(op[t])

\* A create_user call has ended after its commit raised.
C15_Witness ==
    \E t \in Workers :
        Finished(t, "create_user") /\ exc[t] = "CommitError"

\* C16: a create_user call that returned an id has committed exactly one row
\* with that id, carrying the call's email; a create_user call that returned
\* None has left no row of its own in the table.
C16_CreateAllOrNothing ==
    \A t \in Workers :
        Finished(t, "create_user") =>
            /\ ret[t].tag = "int" =>
                   /\ Cardinality({r \in users : r.id = ret[t].val}) = 1
                   /\ \A r \in users :
                          r.id = ret[t].val => r.email = args[t].email
            /\ ret[t] = None =>
                   ~ \E r \in users : r.id = args[t].user_id

ReadOps == {"get_user_by_email", "get_user_by_id", "email_exists", "verify_user"}

\* C17: no step of get_user_by_email, get_user_by_id, email_exists or
\* verify_user changes the table or the sequence, whether the call succeeds
\* or fails; and no step of anything removes a row: every id in the table
\* stays in it with its email.
C17_ReadsChangeNothing ==
    [][/\ \A t \in Workers :
             (/\ pc'[t] # pc[t]
              /\ (op[t] \in ReadOps \/ op'[t] \in ReadOps))
             => (users' = users /\ nextId' = nextId /\ schema' = schema)
       /\ \A r \in users :
             \E r2 \in users' : r2.id = r.id /\ r2.email = r.email]_vars

\* verify_user has returned None for a wrong password of an active user, and
\* the row is in the table as it was.
C17_Witness ==
    \E t \in Workers :
        /\ Finished(t, "verify_user")
        /\ exc[t] = "none"
        /\ ret[t] = None
        /\ \E r \in seen[t] : r.is_active = TRUE /\ r \in users

\* Threads t and u have each found the same email free with email_exists
\* and then called create_user with it; both calls have returned.
Raced(t, u) ==
    /\ t # u
    /\ Finished(t, "create_user") /\ Finished(u, "create_user")
    /\ args[t].email = args[u].email
    /\ prechecked[t] = args[t].email /\ prechecked[u] = args[u].email

\* C18: when two callers have each seen email_exists(e) = False and then
\* called create_user(e) (all connection parameters set, no driver failure),
\* one of the two calls returned an id and the other was rejected by the
\* unique index.
C18_RaceSettledByIndex ==
    \A t, u \in Workers :
        (Raced(t, u) /\ Connectable /\ faults = 0) =>
            \E w \in {t, u} :
                /\ ret[w].tag = "int"
                /\ \A l \in {t, u} \ {w} :
                       exc[l] = "IntegrityError" /\ ret[l] = None

\* C19: once a create_user call with an email has returned an id, no step
\* adds another successful create_user of that email, whether the user is
\* active or has been deactivated since.
C19_EmailStaysReserved ==
    [][\A e \in Emails :
          (\E s \in succeeded : s[1] = e) =>
              {s \in succeeded' : s[1] = e} = {s \in succeeded : s[1] = e}]_vars

\* A create_user call has been rejected by the unique index for the email
\* of a user that was created by create_user and deactivated afterwards.
C19_Witness ==
    \E t \in Workers :
        /\ Finished(t, "create_user")
        /\ exc[t] = "IntegrityError"
        /\ \E r \in seen[t] :
              r.is_active = FALSE /\ <<r.email, r.id>> \in succeeded

====
